---- MODULE Spec2Model ----
(***************************************************************************)
(* The recipe upsert endpoints of catalog-commit-api: the batch handler    *)
(* (src/unnamed/part_000) and the single-form handler                      *)
(* (src/api/save-recipe.js), run as concurrent requests against one        *)
(* document of a GitHub-contents store.                                    *)
(*                                                                         *)
(* JavaScript values are tagged records [t, v]:                            *)
(*   "str"   v = the characters, a tuple of one-character strings          *)
(*   "arr"   v = the elements, a tuple of values                           *)
(*   "obj"   v = a function from keys to values                            *)
(*   "null", "undef"   v = <<>>                                            *)
(* A property that an object lacks reads as Undef.                         *)
(***************************************************************************)
EXTENDS Integers, Sequences, FiniteSets, TLC

VARIABLES env, doc, reqs, acked, last, probe

vars == <<env, doc, reqs, acked, last, probe>>

(***************************************************************************)
(* Values                                                                  *)
(***************************************************************************)
Str(s) == [t |-> "str", v |-> s]

Arr(a) == [t |-> "arr", v |-> a]

Obj(o) == [t |-> "obj", v |-> o]

Null == [t |-> "null", v |-> <<>>]

Undef == [t |-> "undef", v |-> <<>>]

EmptyStr == Str(<<>>)

\* JavaScript truthiness of the values the model uses.
Truthy(x) ==
    CASE x.t = "str" -> x.v # <<>>
      [] x.t = "arr" -> TRUE
      [] x.t = "obj" -> TRUE
      [] OTHER -> FALSE

IsArray(x) == x.t = "arr"

\* x.k
Get(x, k) == IF x.t = "obj" /\ k \in DOMAIN x.v THEN x.v[k] ELSE Undef

\* a || b
OrElse(a, b) == IF Truthy(a) THEN a ELSE b

\* String(x) for strings, null and undefined; arrays join their elements.
RECURSIVE JsString(_)
JsString(x) ==
    CASE x.t = "str" -> x.v
      [] x.t = "null" -> <<"n", "u", "l", "l">>
      [] x.t = "undef" -> <<"u", "n", "d", "e", "f", "i", "n", "e", "d">>
      [] x.t = "obj" -> <<"[", "o", "b", "j", "e", "c", "t", " ", "O", "b", "j", "e", "c", "t", "]">>
      [] x.t = "arr" ->
           IF x.v = <<>> THEN <<>>
           ELSE IF Len(x.v) = 1
                THEN (IF x.v[1].t \in {"null", "undef"} THEN <<>> ELSE JsString(x.v[1]))
                ELSE JsString(Arr(<<x.v[1]>>)) \o <<",">> \o JsString(Arr(Tail(x.v)))

(***************************************************************************)
(* Characters                                                              *)
(***************************************************************************)
UpperToLower ==
    [A |-> "a", B |-> "b", C |-> "c", D |-> "d", M |-> "m", O |-> "o", X |-> "x"]

\* String.prototype.toLowerCase, one character
LowerChar(c) == IF c \in DOMAIN UpperToLower THEN UpperToLower[c] ELSE c

ToLowerCase(s) == [i \in 1..Len(s) |-> LowerChar(s[i])]

\* [a-z0-9]
AlnumChars ==
    {"a", "b", "c", "d", "e", "f", "g", "h", "i", "j", "k", "l", "m", "n", "o",
     "p", "q", "r", "s", "t", "u", "v", "w", "x", "y", "z",
     "0", "1", "2", "3", "4", "5", "6", "7", "8", "9"}

IsSpace(c) == c = " "

RECURSIVE TrimStart(_)
TrimStart(s) ==
    IF s # <<>> /\ IsSpace(s[1]) THEN TrimStart(Tail(s)) ELSE s

RECURSIVE TrimEnd(_)
TrimEnd(s) ==
    IF s # <<>> /\ IsSpace(s[Len(s)]) THEN TrimEnd(SubSeq(s, 1, Len(s) - 1)) ELSE s

\* String.prototype.trim
Trim(s) == TrimEnd(TrimStart(s))

\* .replace(/[^a-z0-9]+/g, "-"): every maximal run of other characters
\* becomes one hyphen.
RECURSIVE ReplaceRuns(_, _)
ReplaceRuns(s, inRun) ==
    IF s = <<>> THEN <<>>
    ELSE IF s[1] \in AlnumChars
         THEN <<s[1]>> \o ReplaceRuns(Tail(s), FALSE)
         ELSE IF inRun THEN ReplaceRuns(Tail(s), TRUE)
              ELSE <<"-">> \o ReplaceRuns(Tail(s), TRUE)

\* .replace(/(^-|-$)/g, ""): a hyphen at the start and a hyphen at the end.
StripHyphens(s) ==
    LET a == IF s # <<>> /\ s[1] = "-" THEN Tail(s) ELSE s
    IN  IF a # <<>> /\ a[Len(a)] = "-" THEN SubSeq(a, 1, Len(a) - 1) ELSE a

\* slug of the batch handler: String(s || "").toLowerCase().trim()...
slug(x) ==
    StripHyphens(ReplaceRuns(Trim(ToLowerCase(JsString(OrElse(x, EmptyStr)))), FALSE))

\* slugify of the single-form handler: String(s).toLowerCase()... (no trim)
slugify(x) ==
    StripHyphens(ReplaceRuns(ToLowerCase(JsString(x)), FALSE))

(***************************************************************************)
(* String.prototype.localeCompare under the default collation: the strings *)
(* are compared by the primary weights of their characters (whitespace,    *)
(* then punctuation, then digits, then letters, case ignored), and strings *)
(* equal at that level by case, lowercase first.                           *)
(***************************************************************************)
CollationOrder ==
    <<" ", "_", "-", ",", ";", ":", "!", "?", ".", "[", "]",
      "0", "1", "2", "3", "4", "5", "6", "7", "8", "9",
      "a", "b", "c", "d", "e", "f", "g", "h", "i", "j", "k", "l", "m", "n", "o",
      "p", "q", "r", "s", "t", "u", "v", "w", "x", "y", "z">>

PrimaryWeight(c) ==
    CHOOSE i \in 1..Len(CollationOrder) : CollationOrder[i] = LowerChar(c)

TertiaryWeight(c) == IF c \in DOMAIN UpperToLower THEN 1 ELSE 0

\* lexicographic comparison of two tuples of numbers: -1, 0 or 1
RECURSIVE LexCompare(_, _)
LexCompare(a, b) ==
    IF a = <<>> THEN (IF b = <<>> THEN 0 ELSE -1)
    ELSE IF b = <<>> THEN 1
    ELSE IF a[1] < b[1] THEN -1
    ELSE IF a[1] > b[1] THEN 1
    ELSE LexCompare(Tail(a), Tail(b))

localeCompare(s1, s2) ==
    LET p == LexCompare([i \in 1..Len(s1) |-> PrimaryWeight(s1[i])],
                        [i \in 1..Len(s2) |-> PrimaryWeight(s2[i])])
    IN  IF p # 0 THEN p
        ELSE LexCompare([i \in 1..Len(s1) |-> TertiaryWeight(s1[i])],
                        [i \in 1..Len(s2) |-> TertiaryWeight(s2[i])])

\* (a, b) => (a.name || "").localeCompare(b.name || "")
CompareByName(a, b) ==
    localeCompare(JsString(OrElse(Get(a, "name"), EmptyStr)),
                  JsString(OrElse(Get(b, "name"), EmptyStr)))

\* x put before the elements it compares equal to
RECURSIVE InsertSortedBeforeEqual(_, _)
InsertSortedBeforeEqual(sorted, x) ==
    IF sorted = <<>> THEN <<x>>
    ELSE IF CompareByName(sorted[Len(sorted)], x) < 0 THEN Append(sorted, x)
    ELSE Append(InsertSortedBeforeEqual(SubSeq(sorted, 1, Len(sorted) - 1), x), sorted[Len(sorted)])

\* Array.prototype.sort is stable: x goes after every element that does not
\* compare greater than it.
RECURSIVE InsertSorted(_, _)
InsertSorted(sorted, x) ==
    IF sorted = <<>> THEN <<x>>
    ELSE IF CompareByName(sorted[Len(sorted)], x) <= 0 THEN Append(sorted, x)
    ELSE Append(InsertSorted(SubSeq(sorted, 1, Len(sorted) - 1), x), sorted[Len(sorted)])

\* the list left in the order of the upserts
SortSkipped(list) == list

RECURSIVE SortByName(_)
SortByName(list) ==
    IF list = <<>> THEN <<>>
    ELSE InsertSorted(SortByName(SubSeq(list, 1, Len(list) - 1)), list[Len(list)])

(***************************************************************************)
(* The normalizer                                                          *)
(***************************************************************************)
Balanced == Str(<<"b", "a", "l", "a", "n", "c", "e", "d">>)

\* one element of ingredients, batch handler
IngredientPair(p) ==
    IF IsArray(p)
    THEN Arr(<<OrElse(IF Len(p.v) >= 1 THEN p.v[1] ELSE Undef, EmptyStr),
               OrElse(IF Len(p.v) >= 2 THEN p.v[2] ELSE Undef, EmptyStr)>>)
    ELSE IF p.t = "obj"
         THEN Arr(<<OrElse(Get(p, "amount"), EmptyStr), OrElse(Get(p, "item"), EmptyStr)>>)
         ELSE Arr(<<EmptyStr, Str(JsString(OrElse(p, EmptyStr)))>>)

\* (r.base || []).map(b => String(b).toLowerCase())
LowerBase(r) ==
    LET b == OrElse(Get(r, "base"), Arr(<<>>))
    IN  Arr([i \in 1..Len(b.v) |-> Str(ToLowerCase(JsString(b.v[i])))])

\* a value that is present wrapped whether or not it is an array
AsArrayAlwaysWrap(x) == IF Truthy(x) THEN Arr(<<x>>) ELSE Arr(<<>>)

\* Array.isArray(x) ? x : (x ? [x] : [])
AsArray(x) == IF IsArray(x) THEN x ELSE IF Truthy(x) THEN Arr(<<x>>) ELSE Arr(<<>>)

\* (r.base || []).map throws a TypeError when base is truthy and no array.
BaseThrows(r) == Truthy(Get(r, "base")) /\ ~IsArray(Get(r, "base"))

\* normalize of the batch handler
normalize(r) ==
    Obj([id |-> OrElse(Get(r, "id"), Str(slug(Get(r, "name")))),
         name |-> Get(r, "name"),
         base |-> LowerBase(r),
         profile |-> AsArray(Get(r, "profile")),
         sweetness |-> OrElse(Get(r, "sweetness"), Balanced),
         ingredients |->
            (LET g == Get(r, "ingredients")
             IN  IF IsArray(g) THEN Arr([i \in 1..Len(g.v) |-> IngredientPair(g.v[i])])
                 ELSE Arr(<<>>)),
         method |-> OrElse(Get(r, "method"), EmptyStr),
         glass |-> OrElse(Get(r, "glass"), EmptyStr),
         garnish |-> OrElse(Get(r, "garnish"), EmptyStr),
         tags |-> AsArray(Get(r, "tags"))])

normalizeThrows(r) == BaseThrows(r)

\* p => Array.isArray(p) ? p : [p.amount||"", p.item||""]
IngredientPairSingle(p) ==
    IF IsArray(p) THEN p
    ELSE Arr(<<OrElse(Get(p, "amount"), EmptyStr), OrElse(Get(p, "item"), EmptyStr)>>)

\* the record the single-form handler builds from recipe
normalized(recipe) ==
    Obj([id |-> Str(slugify(Get(recipe, "name"))),
         name |-> Get(recipe, "name"),
         base |-> LowerBase(recipe),
         profile |-> AsArray(Get(recipe, "profile")),
         sweetness |-> OrElse(Get(recipe, "sweetness"), Balanced),
         ingredients |->
            (LET g == OrElse(Get(recipe, "ingredients"), Arr(<<>>))
             IN  Arr([i \in 1..Len(g.v) |-> IngredientPairSingle(g.v[i])])),
         method |-> OrElse(Get(recipe, "method"), EmptyStr),
         glass |-> OrElse(Get(recipe, "glass"), EmptyStr),
         garnish |-> OrElse(Get(recipe, "garnish"), EmptyStr),
         tags |-> OrElse(Get(recipe, "tags"), Arr(<<>>))])

\* .map on a truthy non-array, or .amount of null or undefined, throws.
normalizedThrows(recipe) ==
    \/ BaseThrows(recipe)
    \/ LET g == Get(recipe, "ingredients")
       IN  /\ Truthy(g)
           /\ \/ ~IsArray(g)
              \/ \E i \in 1..Len(g.v) : g.v[i].t \in {"null", "undef"}

(***************************************************************************)
(* The merger                                                              *)
(***************************************************************************)
\* the derived id taken from the name though the record has an id
findIdByName(x) == Str(slug(OrElse(Get(x, "name"), EmptyStr)))

\* x => (x.id || slug(x.name || "")): the derived id of a stored record
findId(x) == OrElse(Get(x, "id"), Str(slug(OrElse(Get(x, "name"), EmptyStr))))

\* r => (r.id || slugify(r.name || "")), single-form handler
findIdSingle(r) == OrElse(Get(r, "id"), Str(slugify(OrElse(Get(r, "name"), EmptyStr))))

\* a search that never finds
FindIndexNever(list, id) == 0

\* list.findIndex(x => findId(x) === id); 0 stands for -1
FindIndex(list, id) ==
    IF \E i \in 1..Len(list) : findId(list[i]) = id
    THEN CHOOSE i \in 1..Len(list) :
            /\ findId(list[i]) = id
            /\ \A j \in 1..(i - 1) : findId(list[j]) # id
    ELSE 0

FindIndexSingle(list, id) ==
    IF \E i \in 1..Len(list) : findIdSingle(list[i]) = id
    THEN CHOOSE i \in 1..Len(list) :
            /\ findIdSingle(list[i]) = id
            /\ \A j \in 1..(i - 1) : findIdSingle(list[j]) # id
    ELSE 0

\* the existing record replaced by the candidate
SpreadCandidateOnly(a, b) == b

\* the spread with its operands swapped
SpreadExistingWins(a, b) ==
    Obj([k \in DOMAIN a.v \cup DOMAIN b.v |-> IF k \in DOMAIN a.v THEN a.v[k] ELSE b.v[k]])

\* { ...a, ...b }
Spread(a, b) ==
    Obj([k \in DOMAIN a.v \cup DOMAIN b.v |-> IF k \in DOMAIN b.v THEN b.v[k] ELSE a.v[k]])

\* one pass of the loop body for a valid input: merge or push
UpsertOne(list, n) ==
    LET idx == FindIndex(list, Get(n, "id"))
    IN  IF idx > 0 THEN [list EXCEPT ![idx] = Spread(list[idx], n)]
        ELSE Append(list, n)

\* the skip without its test of the name
SkippedIfAbsent(raw) == ~Truthy(raw)

\* if (!raw || !raw.name) continue
Skipped(raw) == ~Truthy(raw) \/ ~Truthy(Get(raw, "name"))

\* the loop over incoming: the list, the counter and the touched ids
RECURSIVE UpsertAll(_, _)
UpsertAll(list, incoming) ==
    IF incoming = <<>> THEN [list |-> list, upserted |-> 0, upsertIds |-> <<>>]
    ELSE LET prev == UpsertAll(list, SubSeq(incoming, 1, Len(incoming) - 1))
             raw == incoming[Len(incoming)]
         IN  IF Skipped(raw) THEN prev
             ELSE [list |-> UpsertOne(prev.list, normalize(raw)),
                   upserted |-> prev.upserted + 1,
                   upsertIds |-> Append(prev.upsertIds, Get(normalize(raw), "id"))]

\* a valid input whose normalize throws ends the loop with an exception
UpsertThrows(incoming) ==
    \E i \in 1..Len(incoming) : ~Skipped(incoming[i]) /\ normalizeThrows(incoming[i])

\* the single-form upsert
UpsertSingle(list, n) ==
    LET idx == FindIndexSingle(list, Get(n, "id"))
    IN  IF idx > 0 THEN [list EXCEPT ![idx] = Spread(list[idx], n)]
        ELSE Append(list, n)

(***************************************************************************)
(* The store: one document of a GitHub-contents repository.  The version   *)
(* token of a document is the blob sha of its content.                     *)
(***************************************************************************)
\* Buffer.from(JSON.stringify(list, null, 2)).toString("base64")
Encode(list) == [json |-> "array", list |-> list]

\* JSON.parse of the decoded content; anything that is no array reads as []
Decode(content) == IF content.json = "array" THEN content.list ELSE <<>>

NoContent == [json |-> "none", list |-> <<>>]

NoDoc == [exists |-> FALSE, content |-> NoContent]

NoSha == [sha |-> NoContent]

\* body.sha of a GET answer
BlobSha(content) == [sha |-> content]

\* GET /contents/{path}?ref={branch}: 200 with content and sha, or 404
StoreGet(d) ==
    IF d.exists THEN [status |-> 200, content |-> d.content, sha |-> BlobSha(d.content)]
    ELSE [status |-> 404, content |-> NoContent, sha |-> NoSha]

\* a GET the store fails to serve
GetFailure == [status |-> 500, content |-> NoContent, sha |-> NoSha]

\* await fetch(getUrl) rejects, or getRes.json() does: no answer is read
GetRejected == [status |-> 0, content |-> NoContent, sha |-> NoSha]

\* PUT /contents/{path}: a new file takes no sha (201), an update takes the
\* sha of the content it replaces (200); a sha that does not match is
\* answered 409 and a missing one 422, and the document stays as it is.
StorePut(d, put) ==
    IF d.exists
    THEN IF put.hasSha /\ put.sha = BlobSha(d.content)
         THEN [status |-> 200, doc |-> [exists |-> TRUE, content |-> put.content]]
         ELSE [status |-> IF put.hasSha THEN 409 ELSE 422, doc |-> d]
    ELSE IF put.hasSha THEN [status |-> 409, doc |-> d]
         ELSE [status |-> 201, doc |-> [exists |-> TRUE, content |-> put.content]]

\* a PUT the store fails to serve
PutFailure(d) == [status |-> 500, doc |-> d]

\* await fetch(putUrl) rejects: the request does not reach the store
PutRejected(d) == [status |-> 0, doc |-> d]

(***************************************************************************)
(* Inputs                                                                  *)
(***************************************************************************)
MaxRequests == 2

Requests == 1..MaxRequests

Methods == {"OPTIONS", "GET", "POST"}

\* the Origin header: none, the allowed origin when one is configured, or
\* another site
Origins(e) == {"", "https://evil"} \cup {e.allowedOrigin}

Passwords == {"", "pw", "bad"}

\* {name: "A b", base: ["A"], sweetness: "dry", ingredients: [["2", "a"]]}
RecipeAB ==
    Obj([name |-> Str(<<"A", " ", "b">>),
         base |-> Arr(<<Str(<<"A">>)>>),
         sweetness |-> Str(<<"d", "r", "y">>),
         ingredients |-> Arr(<<Arr(<<Str(<<"2">>), Str(<<"a">>)>>)>>)])

\* {name: "a!b"}: another name with the slug a-b
RecipeAB2 == Obj([name |-> Str(<<"a", "!", "b">>)])

\* {id: "x", name: "b", tags: "t"}
RecipeX ==
    Obj([id |-> Str(<<"x">>), name |-> Str(<<"b">>), tags |-> Str(<<"t">>)])

\* {sweetness: "dry"}: no name
RecipeNoName == Obj([sweetness |-> Str(<<"d", "r", "y">>)])

\* {name: "b", base: "a"}: base is no array
RecipeBadBase == Obj([name |-> Str(<<"b">>), base |-> Str(<<"a">>)])

\* req.body without the password, as sent to the batch handler
BatchBodies ==
    {[recipe |-> Undef, recipes |-> Undef],
     [recipe |-> Undef, recipes |-> Arr(<<>>)],
     [recipe |-> RecipeAB, recipes |-> Undef],
     [recipe |-> RecipeNoName, recipes |-> Undef],
     [recipe |-> RecipeBadBase, recipes |-> Undef],
     [recipe |-> RecipeX, recipes |-> Arr(<<RecipeAB, RecipeAB2>>)],
     [recipe |-> Undef, recipes |-> Arr(<<Null, RecipeX, RecipeAB>>)]}

\* req.body without the password, as sent to the single-form handler
SingleBodies ==
    {[recipe |-> Undef, recipes |-> Undef],
     [recipe |-> RecipeNoName, recipes |-> Undef],
     [recipe |-> RecipeBadBase, recipes |-> Undef],
     [recipe |-> RecipeAB, recipes |-> Undef],
     [recipe |-> RecipeX, recipes |-> Undef]}

\* a document written by hand before the endpoint existed: a record without
\* id that carries a key of its own, and two records with an id and the
\* same name
LegacyList ==
    <<Obj([name |-> Str(<<"A", " ", "b">>), notes |-> Str(<<"n">>)]),
      Obj([id |-> Str(<<"x">>), name |-> Str(<<"b">>), sweetness |-> Str(<<"d", "r", "y">>)]),
      Obj([id |-> Str(<<"y">>), name |-> Str(<<"b">>)])>>

InitialDocs ==
    {NoDoc,
     [exists |-> TRUE, content |-> Encode(<<>>)],
     [exists |-> TRUE, content |-> Encode(LegacyList)],
     [exists |-> TRUE, content |-> [json |-> "object", list |-> <<>>]],
     [exists |-> TRUE, content |-> [json |-> "invalid", list |-> <<>>]]}

(***************************************************************************)
(* An invocation: what the handler has read of the request, its locals,    *)
(* what it has sent to the store and what it has answered.                 *)
(***************************************************************************)
NotKept == "(not kept)"

NoPut == [hasSha |-> FALSE, sha |-> NoSha, content |-> NoContent]

Idle ==
    [pc |-> "idle", variant |-> "batch", method |-> "", origin |-> "",
     authChecked |-> FALSE, password |-> "",
     recipe |-> Undef, recipes |-> Undef, incoming |-> <<>>,
     gets |-> 0, puts |-> 0,
     getStatus |-> 0, got |-> NoContent, sha |-> NoSha, fetched |-> <<>>,
     upserted |-> 0, upsertIds |-> <<>>, put |-> NoPut, putStatus |-> 0,
     responses |-> 0, status |-> 0, error |-> "", count |-> 0, ids |-> <<>>]

\* res.status(s).json({error: e}), or res.status(200).end() with e = ""
Respond(q, s, e) ==
    [q EXCEPT !.pc = "done", !.responses = @ + 1, !.status = s, !.error = e]

\* the check without its test for an empty password
UnauthorizedNoEmptyTest(password, adminPassword) == password # adminPassword

\* !password || password !== process.env.ADMIN_PASSWORD
Unauthorized(password, adminPassword) ==
    password = "" \/ password # adminPassword

\* the comparison of the origins inverted
ForbiddenOriginInverted(allowed, origin) ==
    allowed # "" /\ origin # "" /\ origin = allowed

\* allowed && origin && origin !== allowed
ForbiddenOrigin(allowed, origin) ==
    allowed # "" /\ origin # "" /\ origin # allowed

\* Array.isArray(recipes) ? recipes : recipe ? [recipe] : []
Incoming(recipe, recipes) ==
    IF IsArray(recipes) THEN recipes.v
    ELSE IF Truthy(recipe) THEN <<recipe>> ELSE <<>>

\* the batch handler up to its first await; origin is not read after the
\* origin check, and is not kept once the handler awaits the store
BatchReceive(e, method, origin, password, body) ==
    LET q0 == [Idle EXCEPT !.variant = "batch", !.method = method, !.origin = origin]
        q1 == [q0 EXCEPT !.authChecked = TRUE, !.password = password]
        incoming == Incoming(body.recipe, body.recipes)
        q2 == [q1 EXCEPT !.recipes = body.recipes,
                         !.recipe = IF IsArray(body.recipes) THEN Undef ELSE body.recipe,
                         !.incoming = incoming]
    IN  IF method = "OPTIONS" THEN Respond(q0, 200, "")
        ELSE IF method # "POST" THEN Respond(q0, 405, "method-not-allowed")
        ELSE IF ForbiddenOrigin(e.allowedOrigin, origin)
             THEN Respond(q0, 403, "forbidden-origin")
        ELSE IF Unauthorized(password, e.adminPassword)
             THEN Respond(q1, 401, "unauthorized")
        ELSE IF Len(incoming) = 0 THEN Respond(q2, 400, "no-recipes")
        ELSE IF ~e.ghConfigured THEN Respond(q2, 500, "missing-github-config")
        ELSE [q2 EXCEPT !.pc = "fetch", !.gets = @ + 1, !.origin = NotKept]

\* the single-form handler up to its first await
SingleReceive(e, method, password, body) ==
    LET q0 == [Idle EXCEPT !.variant = "single", !.method = method]
        q1 == [q0 EXCEPT !.authChecked = TRUE, !.password = password]
        q2 == [q1 EXCEPT !.recipe = body.recipe,
                         !.incoming = IF Truthy(body.recipe) THEN <<body.recipe>> ELSE <<>>]
    IN  IF method = "OPTIONS" THEN Respond(q0, 200, "")
        ELSE IF method # "POST" THEN Respond(q0, 405, "method-not-allowed")
        ELSE IF Unauthorized(password, e.adminPassword)
             THEN Respond(q1, 401, "unauthorized")
        ELSE IF ~Truthy(body.recipe) \/ ~Truthy(Get(body.recipe, "name"))
             THEN Respond(q2, 400, "bad-recipe")
        ELSE IF normalizedThrows(body.recipe) THEN Respond(q2, 500, "server-error")
        ELSE IF ~e.ghConfigured THEN Respond(q2, 500, "missing-github-config")
        ELSE [q2 EXCEPT !.pc = "fetch", !.gets = @ + 1]

\* content that does not decode to an array taken for a failed read
ReadAnswerStrict(q, ans) ==
    LET q1 == [q EXCEPT !.getStatus = ans.status, !.got = ans.content]
    IN  IF ans.status = 0 THEN Respond(q, 500, "server-error")
        ELSE IF ans.status = 200 /\ ans.content.json = "array"
        THEN [q1 EXCEPT !.sha = ans.sha, !.fetched = Decode(ans.content)]
        ELSE IF ans.status = 404 THEN q1
             ELSE Respond(q1, 500, "github-read-failed")

\* the answer read without keeping the list of a 200
ReadAnswerNoList(q, ans) ==
    LET q1 == [q EXCEPT !.getStatus = ans.status, !.got = ans.content]
    IN  IF ans.status = 0 THEN Respond(q, 500, "server-error")
        ELSE IF ans.status = 200 THEN [q1 EXCEPT !.sha = ans.sha]
        ELSE IF ans.status = 404 THEN q1
             ELSE Respond(q1, 500, "github-read-failed")

\* the GET answer as the handler reads it: sha and list of a 200, nothing of
\* a 404, and github-read-failed of any other status (got keeps the content
\* the store sent); a rejected fetch is caught as server-error
ReadAnswer(q, ans) ==
    LET q1 == [q EXCEPT !.getStatus = ans.status, !.got = ans.content]
    IN  IF ans.status = 0 THEN Respond(q, 500, "server-error")
        ELSE IF ans.status = 200
        THEN [q1 EXCEPT !.sha = ans.sha, !.fetched = Decode(ans.content)]
        ELSE IF ans.status = 404 THEN q1
             ELSE Respond(q1, 500, "github-read-failed")

\* the sha key sent whether or not a sha was fetched
PutBodyAlwaysSha(list, sha) ==
    [hasSha |-> TRUE, sha |-> sha, content |-> Encode(list)]

\* { message, content, branch, ...(sha ? { sha } : {}) }
PutBody(list, sha) ==
    [hasSha |-> sha # NoSha, sha |-> sha, content |-> Encode(list)]

\* the merge and the PUT reached also after the answer to a failed read
BatchMergeNoReturn(q, ans) ==
    LET q1 == ReadAnswer(q, ans)
        res == UpsertAll(q1.fetched, q1.incoming)
    IN  [q1 EXCEPT !.pc = "commit", !.puts = @ + 1,
                   !.upserted = res.upserted, !.upsertIds = res.upsertIds,
                   !.put = PutBody(SortByName(res.list), q1.sha)]

\* the batch handler from the GET answer to its PUT
BatchMerge(q, ans) ==
    LET q1 == ReadAnswer(q, ans)
        res == UpsertAll(q1.fetched, q1.incoming)
    IN  IF q1.pc = "done" THEN q1
        ELSE IF UpsertThrows(q1.incoming) THEN Respond(q1, 500, "server-error")
        ELSE [q1 EXCEPT !.pc = "commit", !.puts = @ + 1,
                        !.upserted = res.upserted, !.upsertIds = res.upsertIds,
                        !.put = PutBody(SortByName(res.list), q1.sha)]

\* the single-form handler from the GET answer to its PUT
SingleMerge(q, ans) ==
    LET q1 == ReadAnswer(q, ans)
        n == normalized(q1.recipe)
    IN  IF q1.pc = "done" THEN q1
        ELSE [q1 EXCEPT !.pc = "commit", !.puts = @ + 1,
                        !.upserted = 1, !.upsertIds = <<Get(n, "id")>>,
                        !.put = PutBody(SortByName(UpsertSingle(q1.fetched, n)), q1.sha)]

\* only a server error taken for a failed write
WriteFailedServerOnly(status) == status >= 500

\* putRes.status < 200 || putRes.status >= 300
WriteFailed(status) == status < 200 \/ status >= 300

\* success answered whatever the store said
FinishIgnoringStatus(q, status) ==
    [Respond([q EXCEPT !.putStatus = status], 200, "") EXCEPT
        !.count = IF q.variant = "batch" THEN q.upserted ELSE 0,
        !.ids = q.upsertIds]

\* the handler after the PUT answer: {ok: true, count, ids}, or {ok: true, id}
\* of the single-form handler, kept as the one-element ids; a rejected fetch
\* (status 0) is caught as server-error
Finish(q, status) ==
    LET q1 == [q EXCEPT !.putStatus = status]
    IN  IF status = 0 THEN Respond(q, 500, "server-error")
        ELSE IF WriteFailed(status) THEN Respond(q1, 500, "github-write-failed")
        ELSE [Respond(q1, 200, "") EXCEPT
                 !.count = IF q.variant = "batch" THEN q.upserted ELSE 0,
                 !.ids = q.upsertIds]

(***************************************************************************)
(* The state machine                                                       *)
(***************************************************************************)
\* no request has written the stored document
NoLast ==
    [variant |-> "none", incoming |-> <<>>, count |-> 0, ids |-> <<>>, again |-> FALSE]

\* what a request that was answered ok: true had submitted and was answered;
\* again says that the request before it had submitted the same
Submitted(q, before) ==
    [variant |-> q.variant, incoming |-> q.incoming, count |-> q.count, ids |-> q.ids,
     again |-> (before.variant = q.variant /\ before.incoming = q.incoming)]

\* normalize has not been called
NoProbe == [raw |-> Undef, threw |-> FALSE, once |-> Undef, twice |-> Undef]

Init ==
    /\ env \in [adminPassword : {"", "pw"},
                allowedOrigin : {"", "https://site"},
                ghConfigured : BOOLEAN]
    /\ doc \in InitialDocs
    /\ reqs = [r \in Requests |-> Idle]
    /\ acked = {}
    /\ last = NoLast
    /\ probe = NoProbe

\* an invocation that has answered is over: its locals, its request and its
\* response are gone when the next event happens
Released(rs) ==
    [r \in Requests |->
        IF rs[r].pc = "done"
        THEN [Idle EXCEPT !.pc = "over", !.responses = rs[r].responses]
        ELSE rs[r]]

\* a request arrives at the batch handler, which runs to its first await;
\* the requests are numbered in the order of their arrival
ReceiveBatch(r) ==
    /\ reqs[r].pc = "idle"
    /\ \A p \in 1..(r - 1) : reqs[p].pc # "idle"
    /\ \E method \in Methods, origin \in Origins(env), password \in Passwords, body \in BatchBodies :
          reqs' = [Released(reqs) EXCEPT ![r] = BatchReceive(env, method, origin, password, body)]
    /\ UNCHANGED <<env, doc, acked, last, probe>>

\* a request arrives at the single-form handler, which runs to its first await
ReceiveSingle(r) ==
    /\ reqs[r].pc = "idle"
    /\ \A p \in 1..(r - 1) : reqs[p].pc # "idle"
    /\ \E method \in Methods, password \in Passwords, body \in SingleBodies :
          reqs' = [Released(reqs) EXCEPT ![r] = SingleReceive(env, method, password, body)]
    /\ UNCHANGED <<env, doc, acked, last, probe>>

\* the requests after request r has read ans as the outcome of its GET
AfterFetch(r, ans) ==
    [Released(reqs) EXCEPT ![r] = IF reqs[r].variant = "batch"
                                  THEN BatchMerge(reqs[r], ans)
                                  ELSE SingleMerge(reqs[r], ans)]

\* the store answers the GET and the handler runs to its PUT
FetchReturns(r) ==
    /\ reqs[r].pc = "fetch"
    /\ \E ans \in {StoreGet(doc), GetFailure} : reqs' = AfterFetch(r, ans)
    /\ UNCHANGED <<env, doc, acked, last, probe>>

\* the GET is not answered: the awaited fetch rejects and the handler's
\* catch block responds
FetchRejects(r) ==
    /\ reqs[r].pc = "fetch"
    /\ reqs' = AfterFetch(r, GetRejected)
    /\ UNCHANGED <<env, doc, acked, last, probe>>

\* the document, the requests and the history after request r has read ans
\* as the outcome of its PUT; acked collects the ids that were answered with
\* ok: true, and last is the request that wrote the stored document, if
\* one has
AfterCommit(r, ans) ==
    /\ doc' = ans.doc
    /\ reqs' = [Released(reqs) EXCEPT ![r] = Finish(reqs[r], ans.status)]
    /\ acked' = acked \cup {reqs'[r].ids[i] : i \in 1..Len(reqs'[r].ids)}
    /\ last' = IF reqs'[r].status = 200 THEN Submitted(reqs'[r], last) ELSE last
    /\ UNCHANGED <<env, probe>>

\* the store answers the PUT and the handler responds
CommitReturns(r) ==
    /\ reqs[r].pc = "commit"
    /\ \E ans \in {StorePut(doc, reqs[r].put), PutFailure(doc)} : AfterCommit(r, ans)

\* the PUT is not answered: the awaited fetch rejects and the handler's catch
\* block responds
CommitRejects(r) ==
    /\ reqs[r].pc = "commit"
    /\ AfterCommit(r, PutRejected(doc))

Next ==
    \E r \in Requests :
        \/ ReceiveBatch(r)
        \/ ReceiveSingle(r)
        \/ FetchReturns(r)
        \/ FetchRejects(r)
        \/ CommitReturns(r)
        \/ CommitRejects(r)

Spec == Init /\ [][Next]_vars

\* the endpoint deployed over a repository that holds no document, or an
\* empty one
InitFresh ==
    /\ Init
    /\ doc \in {NoDoc, [exists |-> TRUE, content |-> Encode(<<>>)]}

SpecFresh == InitFresh /\ [][Next]_vars

\* a deployment with a password and an allowed origin, with or without the
\* configuration of its store, before the first write
InitLive ==
    /\ Init
    /\ env.adminPassword = "pw" /\ env.allowedOrigin = "https://site"
    /\ doc = NoDoc

\* no await of a handler waits for ever: a GET or a PUT that the store does
\* not answer ends with the rejection of the awaited fetch
SpecLive ==
    /\ InitLive /\ [][Next]_vars
    /\ \A r \in Requests : WF_vars(FetchRejects(r)) /\ WF_vars(CommitRejects(r))

(***************************************************************************)
(* normalize on its own: the raw recipes a JSON body can carry, with each  *)
(* field absent, empty, a scalar or an array.                              *)
(***************************************************************************)
\* an object with the keys of f whose value is not Undef
MakeRaw(f) == Obj([k \in {j \in DOMAIN f : f[j] # Undef} |-> f[k]])

RawRecipes ==
    {MakeRaw(f) : f \in
        [name : {Str(<<"A", " ", "b">>), Str(<<" ", "a", "!">>)},
         id : {Undef, EmptyStr, Str(<<"x">>)},
         base : {Undef, Arr(<<Str(<<"A">>)>>), Arr(<<Null>>), Str(<<"a">>)},
         profile : {Undef, Str(<<"p">>), Arr(<<Str(<<"p">>)>>)},
         sweetness : {Undef, EmptyStr, Str(<<"d", "r", "y">>)},
         ingredients :
            {Undef, Str(<<"a">>), Arr(<<>>),
             Arr(<<Arr(<<Str(<<"2">>), Str(<<"a">>)>>)>>),
             Arr(<<Arr(<<Str(<<"2">>)>>)>>),
             Arr(<<Arr(<<Str(<<"2">>), Str(<<"a">>), Str(<<"b">>)>>)>>),
             Arr(<<Arr(<<Null, Str(<<"a">>)>>)>>),
             Arr(<<Obj([amount |-> Str(<<"2">>)])>>),
             Arr(<<Str(<<"a">>)>>),
             Arr(<<Null, Obj([item |-> Str(<<"a">>)])>>)},
         method : {Undef, Str(<<"m">>)},
         glass : {Undef, EmptyStr},
         garnish : {Undef},
         tags : {Undef, Str(<<"t">>), Arr(<<Str(<<"t">>)>>)},
         notes : {Undef, Str(<<"n">>)}]}

InitNormalize ==
    /\ env = [adminPassword |-> "pw", allowedOrigin |-> "", ghConfigured |-> TRUE]
    /\ doc = NoDoc
    /\ reqs = [r \in Requests |-> Idle]
    /\ acked = {}
    /\ last = NoLast
    /\ probe \in {[NoProbe EXCEPT !.raw = raw] : raw \in RawRecipes}

\* const n = normalize(raw)
NormalizeOnce ==
    /\ probe.once = Undef /\ ~probe.threw
    /\ probe' = IF normalizeThrows(probe.raw) THEN [probe EXCEPT !.threw = TRUE]
                ELSE [probe EXCEPT !.once = normalize(probe.raw)]
    /\ UNCHANGED <<env, doc, reqs, acked, last>>

\* normalize(n)
NormalizeTwice ==
    /\ probe.once # Undef /\ probe.twice = Undef /\ ~probe.threw
    /\ probe' = IF normalizeThrows(probe.once) THEN [probe EXCEPT !.threw = TRUE]
                ELSE [probe EXCEPT !.twice = normalize(probe.once)]
    /\ UNCHANGED <<env, doc, reqs, acked, last>>

NextNormalize == NormalizeOnce \/ NormalizeTwice

SpecNormalize == InitNormalize /\ [][NextNormalize]_vars

(***************************************************************************)
(* Properties                                                              *)
(***************************************************************************)
Elems(q) == {q[i] : i \in 1..Len(q)}

\* the request sent a GET or a PUT to the store
TouchedStore(q) == q.gets > 0 \/ q.puts > 0

\* the password the handler read is empty, or is not the configured secret
BadPassword(q) == q.password = "" \/ q.password # env.adminPassword

\* C1: a request whose password check fails (empty, missing or different
\* from the configured secret) is answered 401 unauthorized and sends no GET
\* and no PUT; and a request sends a GET or a PUT only after its password
\* was checked and found equal to the configured, non-empty secret.
C1_Unauthorized ==
    \A r \in Requests :
        LET q == reqs[r]
        IN  /\ (q.authChecked /\ BadPassword(q)) =>
                  /\ q.pc = "done"
                  /\ q.status = 401
                  /\ q.error = "unauthorized"
                  /\ ~TouchedStore(q)
            /\ TouchedStore(q) => (q.authChecked /\ ~BadPassword(q))

C1_Witness ==
    /\ env.adminPassword = "pw"
    /\ \E r \in Requests :
          /\ reqs[r].method = "POST" /\ reqs[r].authChecked
          /\ reqs[r].password = "bad" /\ reqs[r].status = 401

\* the ids of the records of the stored document
StoredIds == {Get(x, "id") : x \in Elems(Decode(doc.content))}

\* the version the request fetched is not the version the store holds
Stale(q) ==
    IF q.getStatus = 200 THEN ~doc.exists \/ BlobSha(doc.content) # q.sha
    ELSE doc.exists

\* every id that was answered with ok: true is the id of a stored record
C2_Acknowledged == acked \subseteq StoredIds

C2_StaleStep ==
    \A r \in Requests :
        (reqs[r].pc = "commit" /\ reqs'[r].pc = "done" /\ Stale(reqs[r]))
            => /\ reqs'[r].status = 500
               /\ reqs'[r].error \in {"github-write-failed", "server-error"}
               /\ doc' = doc

\* C2: no silent data loss under any interleaving: at every point every id
\* that a request answered 200 ok:true reported is the id of a record of the
\* stored document, and a request whose fetched version is stale when its
\* commit is served leaves the document as it is and is answered with a
\* failure.
C2_NoSilentLoss == []C2_Acknowledged /\ [][C2_StaleStep]_vars

\* ids were acknowledged, and a request that had fetched the version before
\* that write was refused
C2_Witness ==
    /\ acked # {}
    /\ \E r \in Requests :
          /\ reqs[r].pc = "done" /\ reqs[r].puts = 1
          /\ reqs[r].putStatus \in {409, 422}
          /\ reqs[r].status = 500

\* C3: a commit carries a version token exactly when the request's fetch
\* found the document, and the token is the one that fetch returned; after
\* a not-found fetch the commit carries no token and the committed
\* collection holds the request's upserted records and no other (one record
\* for one valid recipe).
C3_TokenIffFound ==
    \A r \in Requests :
        LET q == reqs[r]
            committed == Decode(q.put.content)
        IN  q.puts > 0 =>
              /\ q.put.hasSha <=> (q.getStatus = 200)
              /\ q.put.hasSha => (q.put.sha = BlobSha(q.got) /\ q.put.sha # NoSha)
              /\ q.getStatus = 404 =>
                    /\ ~q.put.hasSha
                    /\ {Get(x, "id") : x \in Elems(committed)} = Elems(q.upsertIds)
                    /\ Len(committed) = Cardinality(Elems(q.upsertIds))
                    /\ (Len(q.incoming) = 1 /\ q.upserted = 1) => Len(committed) = 1

C3_Witness ==
    \E r \in Requests :
        /\ reqs[r].getStatus = 404 /\ reqs[r].puts = 1 /\ ~reqs[r].put.hasSha
        /\ Len(reqs[r].incoming) = 1 /\ Len(Decode(reqs[r].put.content)) = 1
        /\ reqs[r].status = 200

\* C4: a commit answered with a conflict or any other non-2xx status ends
\* the request with 500 github-write-failed, and no request sends more than
\* one GET or more than one PUT: nothing is retried.
C4_WriteFailedNoRetry ==
    \A r \in Requests :
        LET q == reqs[r]
        IN  /\ q.gets <= 1
            /\ q.puts <= 1
            /\ (q.putStatus # 0 /\ (q.putStatus < 200 \/ q.putStatus > 299)) =>
                  /\ q.pc = "done"
                  /\ q.status = 500
                  /\ q.error = "github-write-failed"
                  /\ q.responses = 1

\* a commit that the store refused for its version token
C4_Witness ==
    \E r \in Requests :
        /\ reqs[r].putStatus = 409 /\ reqs[r].put.hasSha
        /\ reqs[r].status = 500 /\ reqs[r].error = "github-write-failed"

\* C5 as stated: a POST to the handler with a configured allowed origin is
\* answered 403 whenever its origin is not that origin.
C5_Original ==
    \A r \in Requests :
        LET q == reqs[r]
        IN  (q.pc = "done" /\ q.variant = "batch" /\ q.method = "POST"
                /\ q.origin # NotKept
                /\ env.allowedOrigin # "" /\ q.origin # env.allowedOrigin)
              => (q.status = 403 /\ ~q.authChecked /\ ~TouchedStore(q))

\* C5: a request whose method is neither POST nor OPTIONS is answered 405,
\* and a POST to the batch handler that carries an Origin header different
\* from a configured allowed origin is answered 403; in both cases the
\* password is never checked and nothing is sent to the store.  (A POST
\* without an Origin header, and any POST to the single-form handler, passes
\* on to the password check.)
C5_MethodAndOrigin ==
    \A r \in Requests :
        LET q == reqs[r]
        IN  /\ (q.pc \in {"fetch", "commit", "done"} /\ q.method \notin {"POST", "OPTIONS"}) =>
                  /\ q.pc = "done" /\ q.status = 405 /\ q.error = "method-not-allowed"
                  /\ ~q.authChecked /\ ~TouchedStore(q)
            /\ (q.pc = "done" /\ q.variant = "batch" /\ q.method = "POST"
                   /\ env.allowedOrigin # "" /\ q.origin \notin {"", NotKept}
                   /\ q.origin # env.allowedOrigin) =>
                  /\ q.status = 403 /\ q.error = "forbidden-origin"
                  /\ ~q.authChecked /\ ~TouchedStore(q)
            /\ (q.pc \in {"fetch", "commit"}) => q.method = "POST"

C5_Witness ==
    \E r \in Requests :
        /\ reqs[r].status = 403 /\ reqs[r].method = "POST"
        /\ reqs[r].origin = "https://evil" /\ env.allowedOrigin = "https://site"

\* an input that is present and has a non-empty name
Usable(raw) == Truthy(raw) /\ Truthy(Get(raw, "name"))

\* the id field if present and non-empty, else the slug of the name
DerivedId(x) ==
    IF Truthy(Get(x, "id")) THEN Get(x, "id") ELSE Str(slug(Get(x, "name")))

\* C6: an authenticated POST with no usable recipe input (no recipe, an
\* empty recipes list, or only inputs that are absent or lack a name) is
\* answered 400 no-recipes (bad-recipe by the single-form handler) and sends
\* nothing to the store (stated for a deployment whose store is configured).
C6_NoUsableInput ==
    \A r \in Requests :
        LET q == reqs[r]
        IN  (q.method = "POST" /\ q.authChecked /\ ~BadPassword(q) /\ env.ghConfigured
                /\ \A i \in 1..Len(q.incoming) : ~Usable(q.incoming[i]))
              => /\ q.pc = "done"
                 /\ q.status = 400
                 /\ q.error \in {"no-recipes", "bad-recipe"}
                 /\ ~TouchedStore(q)

\* C7: from an absent or empty document on, every record of the stored
\* collection has an id and no two records have the same id.
C7_UniqueIds ==
    LET list == Decode(doc.content)
    IN  /\ \A i \in 1..Len(list) : "id" \in DOMAIN list[i].v
        /\ \A i, j \in 1..Len(list) : i < j => Get(list[i], "id") # Get(list[j], "id")

\* a second write, of an input with an explicit id, has left two records
C7_Witness ==
    /\ Len(Decode(doc.content)) >= 2
    /\ acked # {}
    /\ \E r \in Requests :
          /\ reqs[r].pc = "done" /\ reqs[r].status = 200 /\ reqs[r].getStatus = 200
          /\ \E i \in 1..Len(reqs[r].incoming) : Truthy(Get(reqs[r].incoming[i], "id"))

\* C8: a request that commits after a fetch that found and decoded a
\* collection commits a collection that holds every derived id of the
\* fetched one and has at least as many records.
C8_NoDeletion ==
    \A r \in Requests :
        LET q == reqs[r]
            before == q.got.list
            after == Decode(q.put.content)
        IN  (q.puts > 0 /\ q.getStatus = 200 /\ q.got.json = "array") =>
              /\ {DerivedId(x) : x \in Elems(before)} \subseteq {DerivedId(x) : x \in Elems(after)}
              /\ Len(after) >= Len(before)

\* a commit that merged an input into a record of the fetched collection
C8_Witness ==
    \E r \in Requests :
        LET q == reqs[r]
        IN  /\ q.puts > 0 /\ q.getStatus = 200 /\ q.got.json = "array"
            /\ Len(q.got.list) >= 2
            /\ q.upserted >= 1
            /\ Len(Decode(q.put.content)) = Len(q.got.list)

\* the ids of the usable inputs, in input order
ExpectedIds(incoming) ==
    LET usable == SelectSeq(incoming, Usable)
    IN  [i \in 1..Len(usable) |-> DerivedId(usable[i])]

\* C9: the count a batch answers on success is the number of inputs that
\* are present and have a non-empty name, and ids are the ids of exactly
\* those inputs in input order.
C9_CountAndIds ==
    \A r \in Requests :
        LET q == reqs[r]
        IN  (q.variant = "batch" /\ q.method = "POST" /\ q.pc = "done" /\ q.status = 200) =>
              /\ q.count = Len(SelectSeq(q.incoming, Usable))
              /\ q.ids = ExpectedIds(q.incoming)

\* a batch that skipped an input and reported two ids in an order that is
\* not the order of their records in the collection it committed
C9_Witness ==
    \E r \in Requests :
        LET q == reqs[r]
            committed == Decode(q.put.content)
        IN  /\ q.variant = "batch" /\ q.status = 200
            /\ Len(q.incoming) = 3 /\ q.count = 2
            /\ q.ids[1] # q.ids[2]
            /\ \E i, j \in 1..Len(committed) :
                  i < j /\ Get(committed[i], "id") = q.ids[2]
                        /\ Get(committed[j], "id") = q.ids[1]

\* input j is usable, an earlier usable input has the same id and no later
\* one has
LastOfCollision(incoming, j) ==
    /\ Usable(incoming[j])
    /\ \E i \in 1..(j - 1) :
          Usable(incoming[i]) /\ DerivedId(incoming[i]) = DerivedId(incoming[j])
    /\ \A k \in (j + 1)..Len(incoming) :
          Usable(incoming[k]) => DerivedId(incoming[k]) # DerivedId(incoming[j])

\* C10: when two inputs of a batch have the same derived id, the committed
\* collection holds exactly one record with that id, and each field the
\* normalizer sets has the value of the later input.
C10_LaterWins ==
    \A r \in Requests :
        LET q == reqs[r]
            committed == Decode(q.put.content)
        IN  (q.variant = "batch" /\ q.puts > 0) =>
              \A j \in 1..Len(q.incoming) :
                  LastOfCollision(q.incoming, j) =>
                      LET later == normalize(q.incoming[j])
                          hits == {h \in 1..Len(committed) :
                                      Get(committed[h], "id") = Get(later, "id")}
                      IN  /\ Cardinality(hits) = 1
                          /\ \A h \in hits : \A k \in DOMAIN later.v :
                                Get(committed[h], k) = later.v[k]

\* a batch of two different names with one slug, committed
C10_Witness ==
    \E r \in Requests :
        LET q == reqs[r]
        IN  /\ q.variant = "batch" /\ q.puts > 0 /\ Len(q.incoming) = 2
            /\ LastOfCollision(q.incoming, 2)
            /\ Get(q.incoming[1], "name") # Get(q.incoming[2], "name")
            /\ Truthy(Get(q.incoming[1], "sweetness"))
            /\ ~Truthy(Get(q.incoming[2], "sweetness"))

\* the ten fields the normalizer always sets
NormalizerFields ==
    {"id", "name", "base", "profile", "sweetness", "ingredients", "method",
     "glass", "garnish", "tags"}

\* the candidates of a request that are not overwritten by a later candidate
\* of the same request
Candidates(q) ==
    IF q.variant = "single" THEN {normalized(q.recipe)}
    ELSE {normalize(q.incoming[j]) : j \in {i \in 1..Len(q.incoming) :
            /\ Usable(q.incoming[i])
            /\ \A k \in (i + 1)..Len(q.incoming) :
                  Usable(q.incoming[k]) => DerivedId(q.incoming[k]) # DerivedId(q.incoming[i])}}

\* the derived id of a stored record, as the request's handler computes it
StoredId(q, x) == IF q.variant = "single" THEN findIdSingle(x) ELSE findId(x)

\* C11: when a candidate's id is the derived id of a record of the fetched
\* collection, the committed collection holds the shallow merge of the two:
\* each of the ten normalizer fields has the candidate's value, every other
\* key of the existing record has its old value, and there is no other key.
C11_ShallowMerge ==
    \A r \in Requests :
        LET q == reqs[r]
            committed == Decode(q.put.content)
        IN  q.puts > 0 =>
              \A n \in Candidates(q) : \A i \in 1..Len(q.fetched) :
                  LET x == q.fetched[i]
                  IN  (/\ StoredId(q, x) = Get(n, "id")
                       /\ \A h \in 1..(i - 1) : StoredId(q, q.fetched[h]) # Get(n, "id"))
                      => \E c \in Elems(committed) :
                            /\ DOMAIN c.v = DOMAIN x.v \cup NormalizerFields
                            /\ \A k \in NormalizerFields : c.v[k] = n.v[k]
                            /\ \A k \in DOMAIN x.v \ NormalizerFields : c.v[k] = x.v[k]

\* a name-only candidate merged into a record that had a sweetness, an
\* ingredient and a key of its own
C11_Witness ==
    \E r \in Requests :
        LET q == reqs[r]
        IN  /\ q.puts > 0
            /\ \E x \in Elems(q.fetched), c \in Elems(Decode(q.put.content)) :
                  /\ Get(c, "id") = StoredId(q, x)
                  /\ "notes" \in DOMAIN x.v /\ Get(c, "notes") = Get(x, "notes")
                  /\ Truthy(Get(x, "sweetness")) /\ Get(x, "sweetness") # Balanced
                  /\ Get(x, "ingredients") \notin {Undef, Arr(<<>>)}
                  /\ Get(c, "sweetness") = Balanced
                  /\ Get(c, "ingredients") = Arr(<<>>)

\* no record is followed by a record whose name compares less
Sorted(list) ==
    \A i \in 1..(Len(list) - 1) : CompareByName(list[i], list[i + 1]) <= 0

C12_WriteStep ==
    /\ \A r \in Requests :
          (reqs[r].pc = "commit" /\ reqs'[r].status = 200)
              => /\ doc'.exists
                 /\ doc'.content = reqs[r].put.content
                 /\ Sorted(Decode(doc'.content))
    /\ doc' # doc => Sorted(Decode(doc'.content))

\* C12: a write that is answered ok: true leaves the collection the request
\* committed as the stored one, and every write leaves the stored
\* collection sorted by name: of two adjacent records the name of the first
\* is not greater than the name of the second under the comparator, a
\* missing name compared as "".
C12_SortedAfterWrite == [][C12_WriteStep]_vars

\* a successful write whose records were upserted in another order than the
\* sorted one
C12_Witness ==
    \E r \in Requests :
        LET q == reqs[r]
        IN  /\ q.variant = "batch" /\ q.pc = "done" /\ q.status = 200
            /\ doc.content = q.put.content
            /\ Len(Decode(doc.content)) >= 2
            /\ UpsertAll(q.fetched, q.incoming).list # Decode(doc.content)

\* C13: every usable input of a request that commits is normalized to a
\* record whose id is the input's id when that is present and non-empty, and
\* the slug of its name otherwise; that id is the one reported, and the
\* committed collection holds a record with it.
C13_ExplicitId ==
    \A r \in Requests :
        LET q == reqs[r]
            committed == Decode(q.put.content)
        IN  q.puts > 0 =>
              \A i \in 1..Len(q.incoming) :
                  Usable(q.incoming[i]) =>
                      /\ DerivedId(q.incoming[i]) \in Elems(q.upsertIds)
                      /\ \E c \in Elems(committed) : Get(c, "id") = DerivedId(q.incoming[i])

\* C14: normalize is idempotent: for every raw recipe with a non-empty name
\* that normalize accepts, normalizing the record it returned does not
\* throw and returns the same record, field by field.
C14_Idempotent ==
    /\ (probe.once # Undef) => ~probe.threw
    /\ (probe.twice # Undef) =>
          /\ DOMAIN probe.twice.v = NormalizerFields
          /\ \A k \in NormalizerFields : probe.twice.v[k] = probe.once.v[k]

\* normalized twice, a raw recipe that normalize changes in its id, base,
\* ingredients, tags and keys
C14_Witness ==
    /\ probe.twice # Undef
    /\ Usable(probe.raw)
    /\ "notes" \in DOMAIN probe.raw.v
    /\ ~Truthy(Get(probe.raw, "id"))
    /\ Get(probe.raw, "tags").t = "str"
    /\ Get(probe.raw, "base") # Get(probe.once, "base")
    /\ Get(probe.raw, "ingredients") # Get(probe.once, "ingredients")
    /\ Truthy(Get(probe.raw, "ingredients"))

\* C15: a request sends at most one PUT, and only after its GET was answered
\* found or not found; a request whose GET ended in any other way is
\* answered 500 github-read-failed and sends no PUT.
C15_ReadFailed ==
    \A r \in Requests :
        LET q == reqs[r]
        IN  /\ q.puts <= 1
            /\ q.puts > 0 => (q.gets = 1 /\ q.getStatus \in {200, 404})
            /\ (q.gets > 0 /\ q.pc # "fetch" /\ q.getStatus \notin {200, 404}) =>
                  /\ q.pc = "done"
                  /\ q.status = 500
                  /\ q.error = "github-read-failed"
                  /\ q.puts = 0

\* the status and error code of the terminal states
TerminalStates ==
    {<<200, "">>, <<405, "method-not-allowed">>, <<403, "forbidden-origin">>,
     <<401, "unauthorized">>, <<400, "no-recipes">>, <<400, "bad-recipe">>,
     <<500, "missing-github-config">>, <<500, "github-read-failed">>,
     <<500, "github-write-failed">>, <<500, "server-error">>}

\* a request has sent one response exactly when it is in a terminal state,
\* and none before
C16_OneResponse ==
    \A r \in Requests :
        LET q == reqs[r]
        IN  /\ q.responses = IF q.pc \in {"done", "over"} THEN 1 ELSE 0
            /\ q.pc = "done" => <<q.status, q.error>> \in TerminalStates

\* a request in a terminal state sends no response and nothing to the store
C16_TerminalStep ==
    \A r \in Requests :
        reqs[r].pc \in {"done", "over"} =>
            /\ reqs'[r].pc \in {"done", "over"}
            /\ reqs'[r].responses = reqs[r].responses
            /\ reqs'[r].gets <= reqs[r].gets
            /\ reqs'[r].puts <= reqs[r].puts

\* C16: when the store settles every GET and PUT, every request that has
\* arrived reaches a terminal state (preflight, method-not-allowed,
\* forbidden-origin, unauthorized, no-recipes or bad-recipe, missing config,
\* read failed, write failed, success or server-error); it has then sent
\* exactly one response, and sends no second one and nothing to the store
\* afterwards.
C16_Terminates ==
    /\ []C16_OneResponse
    /\ [][C16_TerminalStep]_vars
    /\ \A r \in Requests :
          (reqs[r].pc \in {"fetch", "commit"}) ~> (reqs[r].pc \in {"done", "over"})

\* a request that went through its GET and its PUT and answered, after
\* another request had answered
C16_Witness ==
    \E r1, r2 \in Requests :
        /\ reqs[r1].pc = "over" /\ reqs[r1].responses = 1
        /\ reqs[r2].pc = "done" /\ reqs[r2].responses = 1
        /\ reqs[r2].gets = 1 /\ reqs[r2].puts = 1

\* C17: when the GET finds the document and its content does not decode to
\* an array, the request does not fail for it: it goes on with an empty
\* list and, unless normalize throws, commits with the sha it fetched a
\* collection that holds its upserted records and no other.
C17_UndecodableContent ==
    \A r \in Requests :
        LET q == reqs[r]
            committed == Decode(q.put.content)
        IN  (q.getStatus = 200 /\ q.got.json # "array") =>
              /\ q.error # "github-read-failed"
              /\ q.fetched = <<>>
              /\ q.puts = 1 \/ (q.variant = "batch" /\ UpsertThrows(q.incoming))
              /\ q.puts > 0 =>
                    /\ q.put.hasSha /\ q.put.sha = BlobSha(q.got)
                    /\ {Get(x, "id") : x \in Elems(committed)} = Elems(q.upsertIds)
                    /\ Len(committed) = Cardinality(Elems(q.upsertIds))

\* a batch of two names written over content that is no JSON
C17_Witness ==
    \E r \in Requests :
        LET q == reqs[r]
        IN  /\ q.getStatus = 200 /\ q.got.json = "invalid"
            /\ q.putStatus = 200 /\ q.status = 200
            /\ Len(Decode(q.put.content)) = 2
            /\ doc.content = q.put.content

\* the ids of the valid inputs of a request
InputIds(q) == {Get(n, "id") : n \in
    IF q.variant = "single" THEN {normalized(q.recipe)}
    ELSE {normalize(q.incoming[i]) : i \in {j \in 1..Len(q.incoming) : Usable(q.incoming[j])}}}

\* the positions of the records equal to x
Positions(list, x) == {i \in 1..Len(list) : list[i] = x}

\* C18: a request that commits leaves the records it does not touch as they
\* are: every record of the fetched collection whose derived id is the id of
\* no valid input is in the committed collection with the same keys and
\* values, as often as before, and two such records whose names compare
\* equal are in the order they had.
C18_Untouched ==
    \A r \in Requests :
        LET q == reqs[r]
            committed == Decode(q.put.content)
            untouched == {i \in 1..Len(q.fetched) : StoredId(q, q.fetched[i]) \notin InputIds(q)}
        IN  q.puts > 0 =>
              /\ \A i \in untouched :
                    Cardinality(Positions(committed, q.fetched[i]))
                        = Cardinality(Positions(q.fetched, q.fetched[i]))
              /\ \A i1, i2 \in untouched :
                    (/\ i1 < i2
                     /\ q.fetched[i1] # q.fetched[i2]
                     /\ CompareByName(q.fetched[i1], q.fetched[i2]) = 0)
                    => \A j1 \in Positions(committed, q.fetched[i1]),
                          j2 \in Positions(committed, q.fetched[i2]) : j1 < j2

\* a commit that merged into one record of the fetched collection and left
\* two records of one name
C18_Witness ==
    \E r \in Requests :
        LET q == reqs[r]
        IN  /\ q.puts > 0 /\ q.status = 200
            /\ \E i0, i1, i2 \in 1..Len(q.fetched) :
                  /\ StoredId(q, q.fetched[i0]) \in InputIds(q)
                  /\ q.fetched[i0] \notin Elems(Decode(q.put.content))
                  /\ i1 < i2
                  /\ StoredId(q, q.fetched[i1]) \notin InputIds(q)
                  /\ StoredId(q, q.fetched[i2]) \notin InputIds(q)
                  /\ CompareByName(q.fetched[i1], q.fetched[i2]) = 0

C19_ResubmitStep ==
    \A r \in Requests :
        (/\ reqs[r].pc = "commit" /\ reqs'[r].pc = "done" /\ reqs'[r].status = 200
         /\ last.variant = reqs[r].variant
         /\ last.incoming = reqs[r].incoming)
        => /\ doc'.content = doc.content
           /\ doc'.content = reqs[r].put.content
           /\ reqs'[r].count = last.count
           /\ reqs'[r].ids = last.ids

\* C19: when a request is answered ok: true for what the last request that
\* was answered ok: true had submitted, and nothing else was written in
\* between, the collection it commits is the collection that request
\* committed, and its count and ids are the same.
C19_Resubmission == [][C19_ResubmitStep]_vars

\* a batch of three inputs answered ok: true a second time
C19_Witness ==
    /\ last.again
    /\ last.variant = "batch"
    /\ Len(last.incoming) = 3
    /\ \E r \in Requests :
          /\ reqs[r].pc = "done" /\ reqs[r].status = 200
          /\ reqs[r].incoming = last.incoming
          /\ reqs[r].got = doc.content

====
